---- MODULE Spec2Model ----
(***************************************************************************)
(* Price monitor: the scan pipeline of app.py (Flask + BackgroundScheduler *)
(* threads) and main.py (asyncio + AsyncIOScheduler), the alert ledger of  *)
(* db.py and the notification batcher of notifier.py.                      *)
(*                                                                         *)
(* Time is counted in whole hours since 00:00 of day 0 (UTC); minutes and  *)
(* seconds of every instant the model visits are zero.                     *)
(***************************************************************************)
EXTENDS Integers, Sequences, FiniteSets, TLC

\* ---------------------------------------------------------------- bounds
\* longest list of matched products one fetch returns
MaxProducts == 2
\* number of scan cycles that may be started in one behaviour
MaxCycles == 2
\* last instant (hours) the clock reaches; the clock starts at RetentionHours
MaxTime == 60
\* hours the clock advances in one step
ClockStep == 18
\* character count of the long product name
BigNameLen == 4000
\* longest product list handed to the batcher on its own
MaxBatch == 3
\* longest rule list handed to the scraper on its own
MaxRules == 2
\* request threads of the web server that run at the same time
MaxThreads == 2
\* longest price text handed to _parse_price on its own
MaxText == 4
\* longest list of product cards handed to the card loop on its own
MaxCards == 2

\* ------------------------------------------------------ program constants
\* Telegram message ceiling, notifier.py
TelegramLimit == 4096
\* retention window handed to cleanup_old by both orchestrators
RetentionHours == 24
\* len("🔥 <b>최저가 할인 알림!</b>\n"), the first line of every message
HeaderLen == 20
\* rule id standing for Python's None (legacy single-filter mode)
NoRule == 0

\* ------------------------------------------------------------------ texts
\* the product name that is BigNameLen characters long
BigName == "BIG"

\* len(s) of the text a model string stands for
TextLen(s) == IF s = BigName THEN BigNameLen ELSE Len(s)

Range(s) == {s[i] : i \in DOMAIN s}

\* ------------------------------------------------------- matched products
\* the dicts scrape_best_prices appends in rule-list mode
Product(n, u, r) ==
  [name |-> n, old_price |-> "CHF 599.00", new_price |-> "CHF 499.00",
   discount |-> "-17%", shop |-> "", url |-> u, matched_rule_id |-> r]

\* products the fetch can return to app.scan_job (rules supplied)
AppCatalog == {Product("iPad", "/ipad", 1), Product("iPad", "/ipad", 2),
               Product(BigName, "", 1)}

\* products the fetch can return to main.run_scan (legacy mode, no rule id)
MainCatalog == {Product("iPad", "/ipad", NoRule), Product(BigName, "", NoRule)}

SeqsUpTo(S, n) == UNION {[1..k -> S] : k \in 0..n}

\* p.get("url") or p["name"]
KeyUrl(p) == IF p.url # "" THEN p.url ELSE p.name

\* (p.get("url") or p["name"], p["new_price"])
Key(p) == <<KeyUrl(p), p.new_price>>

\* ---------------------------------------------------------------- notifier
\* the lines format_message appends for one product, each with the "\n"
\* that joins it to the previous line
BlockLen(p) ==
    (1 + TextLen(p.name) + 9)
  + (1 + TextLen(p.old_price) + TextLen(p.new_price) + TextLen(p.discount) + 8)
  + (IF p.shop # "" THEN 1 + 2 + TextLen(p.shop) ELSE 0)
  + (IF p.url # "" THEN 1 + TextLen(p.url) + 22 ELSE 0)
  + 1

RECURSIVE SumBlocks(_)
SumBlocks(ps) == IF ps = <<>> THEN 0 ELSE BlockLen(Head(ps)) + SumBlocks(Tail(ps))

\* len(format_message(products)); a message is kept as the list of products
\* whose blocks it holds
FormatLen(ps) == HeaderLen + SumBlocks(ps)

\* Messages with the ceiling applied to the first product's message alone
MessagesFirstOnly(ps) ==
  IF ps = <<>> THEN <<>>
  ELSE IF FormatLen(<<ps[1]>>) <= TelegramLimit THEN <<ps>>
  ELSE [i \in 1..Len(ps) |-> <<ps[i]>>]

\* the messages send_telegram_alert hands to bot.send_message, in order
Messages(ps) ==
  IF ps = <<>> THEN <<>>
  ELSE IF FormatLen(ps) <= TelegramLimit THEN <<ps>>
  ELSE [i \in 1..Len(ps) |-> <<ps[i]>>]

\* ---------------------------------------------------------------------- db
\* two decimal digits of n as character codes
Digits2(n) == <<48 + (n \div 10), 48 + (n % 10)>>

\* CURRENT_TIMESTAMP as stored in alerted_at: "<date> <time>"
SqlTimestamp(t) == Digits2(t \div 24) \o <<32>> \o Digits2(t % 24)

\* datetime.isoformat(): "<date>T<time>"
IsoFormat(t) == Digits2(t \div 24) \o <<84>> \o Digits2(t % 24)

\* SQLite's BINARY text comparison a < b
RECURSIVE TextLess(_, _)
TextLess(a, b) ==
  IF b = <<>> THEN FALSE
  ELSE IF a = <<>> THEN TRUE
  ELSE IF Head(a) # Head(b) THEN Head(a) < Head(b)
  ELSE TextLess(Tail(a), Tail(b))

\* Table alert_history is kept as the bag of its rows without the id column:
\* a function from row to the number of copies the table holds.
EmptyLedger == [r \in {} |-> 0]

\* AlreadyAlerted with the two query parameters bound in the wrong order
AlreadyAlertedSwapped(led, product_url, price) ==
  \E r \in DOMAIN led : r.product_url = price /\ r.price = product_url

\* SELECT 1 FROM alert_history WHERE product_url = ? AND price = ?
AlreadyAlerted(led, product_url, price) ==
  \E r \in DOMAIN led : r.product_url = product_url /\ r.price = price

\* INSERT INTO alert_history ...; alerted_at defaults to CURRENT_TIMESTAMP
RecordAlert(led, product_url, price, rule_id, t) ==
  LET row == [product_url |-> product_url, price |-> price,
              rule_id |-> rule_id, alerted_at |-> t]
  IN  [r \in DOMAIN led \cup {row} |->
         IF r = row THEN (IF r \in DOMAIN led THEN led[r] + 1 ELSE 1)
         ELSE led[r]]

\* DELETE FROM alert_history WHERE alerted_at < cutoff.isoformat()
CleanupOld(led, hours, t) ==
  LET cutoff == t - hours
  IN  [r \in {x \in DOMAIN led :
                ~TextLess(SqlTimestamp(x.alerted_at), IsoFormat(cutoff))}
         |-> led[r]]

\* the record loop of one cycle: one INSERT per product, in list order
RECURSIVE RecordAll(_, _, _)
RecordAll(led, ps, t) ==
  IF ps = <<>> THEN led
  ELSE RecordAll(RecordAlert(led, KeyUrl(Head(ps)), Head(ps).new_price,
                             Head(ps).matched_rule_id, t), Tail(ps), t)

LedgerKeys(led) == {<<r.product_url, r.price>> : r \in DOMAIN led}

\* ----------------------------------------------------------------- scraper
\* Texts the scraper inspects are sequences of one-character strings; amounts
\* are whole rappen and discounts whole hundredths of a percent, so every
\* amount and discount of the model is exact.

\* a price that _parse_price could not parse or an element that is missing
NoneVal == -1

\* 100 rappen: CHF 1.00
Franc == 100

\* brand_filter and min_discount_percent of the legacy single-filter mode
LegacyBrand == <<"A", "p">>
LegacyMin == 20 * Franc

\* str.lower() on the model's alphabet
Lower(ch) == IF ch = "A" THEN "a" ELSE IF ch = "P" THEN "p" ELSE ch

LowerText(s) == [k \in DOMAIN s |-> Lower(s[k])]

\* Python's v in s
IsSubstring(v, s) ==
  \E k \in 0..(Len(s) - Len(v)) : SubSeq(s, k + 1, k + Len(v)) = v

\* str.strip()
RECURSIVE Strip(_)
Strip(s) ==
  IF s = <<>> THEN s
  ELSE IF Head(s) = " " THEN Strip(Tail(s))
  ELSE IF s[Len(s)] = " " THEN Strip(SubSeq(s, 1, Len(s) - 1))
  ELSE s

\* scraper.py line 84
FullName(manufacturer, name) ==
  IF name # <<>> THEN Strip(manufacturer \o <<" ">> \o name) ELSE manufacturer

\* scraper.py line 113: ((old - new) / old) * 100, in hundredths of a percent
DiscountPct(old, new) == ((old - new) * 100 * Franc) \div old

\* _match_rules with the threshold test written discount_pct <= min_disc
RECURSIVE MatchRulesStrict(_, _, _, _)
MatchRulesStrict(manufacturer, full_name, discount_pct, rules) ==
  IF rules = <<>> THEN <<>>
  ELSE LET rule  == Head(rules)
           value == LowerText(rule.value)
           rest  == MatchRulesStrict(manufacturer, full_name, discount_pct,
                                     Tail(rules))
           hit   == <<[id |-> rule.id, min |-> rule.min_discount_percent]>>
       IN  IF discount_pct <= rule.min_discount_percent THEN rest
           ELSE IF rule.rule_type = "brand"
           THEN (IF IsSubstring(value, LowerText(manufacturer))
                 THEN hit \o rest ELSE rest)
           ELSE IF rule.rule_type = "keyword"
           THEN (IF IsSubstring(value, LowerText(full_name))
                 THEN hit \o rest ELSE rest)
           ELSE rest

\* scraper.py lines 173-192
RECURSIVE MatchRules(_, _, _, _)
MatchRules(manufacturer, full_name, discount_pct, rules) ==
  IF rules = <<>> THEN <<>>
  ELSE LET rule  == Head(rules)
           value == LowerText(rule.value)
           rest  == MatchRules(manufacturer, full_name, discount_pct,
                               Tail(rules))
           hit   == <<[id |-> rule.id, min |-> rule.min_discount_percent]>>
       IN  IF discount_pct < rule.min_discount_percent THEN rest
           ELSE IF rule.rule_type = "brand"
           THEN (IF IsSubstring(value, LowerText(manufacturer))
                 THEN hit \o rest ELSE rest)
           ELSE IF rule.rule_type = "keyword"
           THEN (IF IsSubstring(value, LowerText(full_name))
                 THEN hit \o rest ELSE rest)
           ELSE rest

\* the call of _match_rules one candidate leads to, if any
NoCall == [called |-> FALSE, manufacturer |-> <<>>, full_name |-> <<>>,
           discount_pct |-> 0, result |-> <<>>]

Call(manufacturer, full_name, discount_pct, rules) ==
  [called |-> TRUE, manufacturer |-> manufacturer, full_name |-> full_name,
   discount_pct |-> discount_pct,
   result |-> MatchRules(manufacturer, full_name, discount_pct, rules)]

\* the dict appended for one match; a price text f"CHF {v:,.2f}" is kept as the
\* amount v and the empty text "" as NoneVal
Matched(full_name, old, new, shop, url, rule_id) ==
  [name |-> full_name, old_price |-> old, new_price |-> new,
   discount |-> IF old > 0 /\ new # NoneVal THEN DiscountPct(old, new) ELSE 0,
   shop |-> shop, url |-> url, matched_rule_id |-> rule_id]

\* scraper.py lines 75-153 for one product card: the call of _match_rules
CardCall(cand, rules) ==
  LET full_name == FullName(cand.manufacturer, cand.name)
  IN  IF full_name = <<>> THEN NoCall
      ELSE IF cand.old = NoneVal \/ cand.new = NoneVal THEN NoCall
      ELSE IF cand.old <= 0 THEN NoCall
      ELSE IF rules = <<>> THEN NoCall
      ELSE Call(cand.manufacturer, full_name, DiscountPct(cand.old, cand.new),
                rules)

\* the products of one card, each tagged with the id of the first rule of
\* the list instead of the rule that matched
CardProductsFirstRule(cand, rules) ==
  LET full_name == FullName(cand.manufacturer, cand.name)
      call      == CardCall(cand, rules)
  IN  IF full_name = <<>> THEN <<>>
      ELSE IF cand.old = NoneVal \/ cand.new = NoneVal THEN <<>>
      ELSE IF cand.old <= 0 THEN <<>>
      ELSE IF rules # <<>>
      THEN [k \in DOMAIN call.result |->
              Matched(full_name, cand.old, cand.new, "", cand.url,
                      rules[1].id)]
      ELSE IF ~IsSubstring(LowerText(LegacyBrand), LowerText(cand.manufacturer))
      THEN <<>>
      ELSE IF DiscountPct(cand.old, cand.new) < LegacyMin THEN <<>>
      ELSE <<Matched(full_name, cand.old, cand.new, "", cand.url, NoRule)>>

\* scraper.py lines 75-153 for one product card: the products appended
CardProducts(cand, rules) ==
  LET full_name == FullName(cand.manufacturer, cand.name)
      call      == CardCall(cand, rules)
  IN  IF full_name = <<>> THEN <<>>
      ELSE IF cand.old = NoneVal \/ cand.new = NoneVal THEN <<>>
      ELSE IF cand.old <= 0 THEN <<>>
      ELSE IF rules # <<>>
      THEN [k \in DOMAIN call.result |->
              Matched(full_name, cand.old, cand.new, "", cand.url,
                      call.result[k].id)]
      ELSE IF ~IsSubstring(LowerText(LegacyBrand), LowerText(cand.manufacturer))
      THEN <<>>
      ELSE IF DiscountPct(cand.old, cand.new) < LegacyMin THEN <<>>
      ELSE <<Matched(full_name, cand.old, cand.new, "", cand.url, NoRule)>>

\* Python truth of a parsed price: neither None nor 0.0
Truthy(v) == v # NoneVal /\ v # 0

\* scraper.py lines 250-253
RssDiscount(cand) ==
  IF Truthy(cand.old) /\ Truthy(cand.new) /\ cand.old > 0
  THEN DiscountPct(cand.old, cand.new) ELSE 0

\* scraper.py lines 224-280 for one feed entry whose title is the full name:
\* the call of _match_rules
RssCall(cand, rules) ==
  LET title == FullName(cand.manufacturer, cand.name)
  IN  IF title = <<>> \/ rules = <<>> THEN NoCall
      ELSE Call(title, title, RssDiscount(cand), rules)

\* scraper.py lines 224-280 for one feed entry: the products appended
RssProducts(cand, rules) ==
  LET title == FullName(cand.manufacturer, cand.name)
      call  == RssCall(cand, rules)
      old   == IF Truthy(cand.old) THEN cand.old ELSE NoneVal
      new   == IF Truthy(cand.new) THEN cand.new ELSE NoneVal
  IN  IF title = <<>> THEN <<>>
      ELSE IF rules # <<>>
      THEN [k \in DOMAIN call.result |->
              Matched(title, old, new, "Preispirat", cand.url,
                      call.result[k].id)]
      ELSE <<Matched(title, old, new, "Preispirat", cand.url, NoRule)>>

\* ------------------------------------------------------------ _parse_price
\* a price text is a sequence of one-character strings over this alphabet:
\* digits, the decimal point, both thousands separators, the dash of ".-",
\* the blank, the letters of the CHF token, and the letters float() reads in
\* an exponent and in "nan"
PriceChars == {"0", "1", ".", ",", "'", "-", " ", "C", "H", "F", "e", "n", "a"}

Digits == {"0", "1"}

\* the result None, the float nan, and the float neg * digits * 10^exp10,
\* with digits not a multiple of ten
NoneResult == [kind |-> "none", neg |-> FALSE, digits |-> 0, exp10 |-> 0]
NanResult == [kind |-> "nan", neg |-> FALSE, digits |-> 0, exp10 |-> 0]

RECURSIVE Num(_, _, _)
Num(neg, digits, exp10) ==
  IF digits = 0
  THEN [kind |-> "num", neg |-> neg, digits |-> 0, exp10 |-> 0]
  ELSE IF digits % 10 = 0 THEN Num(neg, digits \div 10, exp10 + 1)
  ELSE [kind |-> "num", neg |-> neg, digits |-> digits, exp10 |-> exp10]

\* str.replace(ch, "")
RECURSIVE Remove(_, _)
Remove(s, ch) ==
  IF s = <<>> THEN s
  ELSE IF Head(s) = ch THEN Remove(Tail(s), ch)
  ELSE <<Head(s)>> \o Remove(Tail(s), ch)

\* str.replace("CHF", ""): the occurrences from the left, in one pass
RECURSIVE RemoveCHF(_)
RemoveCHF(s) ==
  IF Len(s) < 3 THEN s
  ELSE IF SubSeq(s, 1, 3) = <<"C", "H", "F">>
  THEN RemoveCHF(SubSeq(s, 4, Len(s)))
  ELSE <<Head(s)>> \o RemoveCHF(Tail(s))

\* re.sub(r'\.-$', '', cleaned)
DropDotDash(s) ==
  IF Len(s) >= 2 /\ s[Len(s) - 1] = "." /\ s[Len(s)] = "-"
  THEN SubSeq(s, 1, Len(s) - 2) ELSE s

\* position of the first ch in s, 0 if there is none
Pos(s, ch) ==
  IF \E k \in DOMAIN s : s[k] = ch
  THEN CHOOSE k \in DOMAIN s : s[k] = ch /\ \A j \in 1..(k - 1) : s[j] # ch
  ELSE 0

IsDigits(s) == \A k \in DOMAIN s : s[k] \in Digits

RECURSIVE DigitsVal(_)
DigitsVal(s) ==
  IF s = <<>> THEN 0
  ELSE 10 * DigitsVal(SubSeq(s, 1, Len(s) - 1))
         + (IF s[Len(s)] = "1" THEN 1 ELSE 0)

Signed(s) == s # <<>> /\ Head(s) = "-"

Unsigned(s) == IF Signed(s) THEN Tail(s) ELSE s

\* float(cleaned) on the alphabet: an optional sign, then "nan", or digits
\* with an optional point and an optional exponent; anything else raises
\* ValueError, which _parse_price turns into None
Float(s) ==
  LET u  == Unsigned(s)
      e  == Pos(u, "e")
      m  == IF e = 0 THEN u ELSE SubSeq(u, 1, e - 1)
      x  == IF e = 0 THEN <<>> ELSE SubSeq(u, e + 1, Len(u))
      xu == Unsigned(x)
      d  == Pos(m, ".")
      ip == IF d = 0 THEN m ELSE SubSeq(m, 1, d - 1)
      fp == IF d = 0 THEN <<>> ELSE SubSeq(m, d + 1, Len(m))
      ex == IF Signed(x) THEN 0 - DigitsVal(xu) ELSE DigitsVal(xu)
  IN  IF u = <<"n", "a", "n">> THEN NanResult
      ELSE IF ~(IsDigits(ip) /\ IsDigits(fp) /\ ip \o fp # <<>>)
      THEN NoneResult
      ELSE IF e # 0 /\ ~(IsDigits(xu) /\ xu # <<>>) THEN NoneResult
      ELSE Num(Signed(s), DigitsVal(ip \o fp), ex - Len(fp))

\* scraper.py lines 195-202
ParsePrice(text) ==
  Float(DropDotDash(Strip(RemoveCHF(
          Remove(Remove(Remove(text, "'"), ","), " ")))))

\* _parse_price has not been called yet
PriceReady(text) == [state |-> "ready", text |-> text, value |-> NoneResult]

\* _parse_price is not looked at on its own
PriceOff == PriceReady(<<>>)

\* the scraper has not run yet
ScrReady(path, cand, rules) ==
  [state |-> "ready", path |-> path, cand |-> cand, rules |-> rules,
   call |-> NoCall, products |-> <<>>, deduped |-> <<>>]

\* ------------------------------------------------------------ orchestrator
\* "timer": the scheduler's job instance (both programs); "manual": the thread
\* of monitor_run_now (app.py); "first": the immediate first scan (main.py)
Procs == {"timer", "manual", "first"}

VARIABLES
  mode,        \* which program runs: "app" (app.py) or "main" (main.py)
  now,         \* the clock, in hours
  ledger,      \* table alert_history
  rulesOn,     \* app: some watch rule is enabled
  configured,  \* app: telegram_bot_token and telegram_chat_id are both set
  cyc,         \* per trigger source: position and locals of its scan cycle
  started,     \* scan cycles started so far
  job,         \* the scheduler holds a registration of the scan job
  batchIn,     \* product list handed to send_telegram_alert on its own
  batchOut,    \* the messages it emitted for batchIn
  scr,         \* one candidate handed to the scraper on its own, and its result
  sched,       \* the request threads of the scheduler routes and what they see
  price,       \* one price text handed to _parse_price on its own, and its result
  page         \* one list of product cards handed to the card loop on its own

vars == <<mode, now, ledger, rulesOn, configured, cyc, started, job,
          batchIn, batchOut, scr, sched, price, page>>

\* locals of a cycle that is not running; held is the set of ledger keys that
\* have had a record ever since the cycle started
Idle ==
  [pc |-> "idle", cfg |-> FALSE, products |-> <<>>, new_products |-> <<>>,
   i |-> 0, msgs |-> <<>>, sent |-> <<>>, held |-> {}, dberr |-> ""]

\* the function has returned: the thread or job instance is free again; the
\* first scan of main.py is never repeated
Returned(c) == IF c = "first" THEN [Idle EXCEPT !.pc = "done"] ELSE Idle

\* an exception of the ledger left the function: what names the call that
\* raised; the messages already sent stay sent
Raised(l, what) ==
  [Idle EXCEPT !.pc = "raised", !.dberr = what, !.sent = l.sent]

\* a cycle is between its start and its terminal state
InFlight(c) == cyc[c].pc \notin {"idle", "done", "raised", "killed"}

\* the thread or coroutine of a cycle is ended where it stands
Killed(l) == [l EXCEPT !.pc = "killed"]

\* the process has not been told to stop
Running == \A c \in Procs : cyc[c].pc # "killed"

\* nothing of this trigger source is running
Free(c) == cyc[c].pc \in {"idle", "raised"}

\* the dedup with the rule id made part of the key
RECURSIVE DedupByRule(_, _)
DedupByRule(ps, seen) ==
  IF ps = <<>> THEN <<>>
  ELSE LET k == <<Key(Head(ps)), Head(ps).matched_rule_id>>
       IN  IF k \in seen THEN DedupByRule(Tail(ps), seen)
           ELSE <<Head(ps)>> \o DedupByRule(Tail(ps), seen \cup {k})

\* app.py lines 59-67: keep the first product of every key
RECURSIVE Dedup(_, _)
Dedup(ps, seen) ==
  IF ps = <<>> THEN <<>>
  ELSE IF Key(Head(ps)) \in seen THEN Dedup(Tail(ps), seen)
  ELSE <<Head(ps)>> \o Dedup(Tail(ps), seen \cup {Key(Head(ps))})

\* main.py lines 54-61: the whole ledger filter, run without an await
RECURSIVE FilterAll(_, _)
FilterAll(led, ps) ==
  IF ps = <<>> THEN <<>>
  ELSE IF ~AlreadyAlerted(led, KeyUrl(Head(ps)), Head(ps).new_price)
       THEN <<Head(ps)>> \o FilterAll(led, Tail(ps))
       ELSE FilterAll(led, Tail(ps))

\* a cleanup ran: every cycle forgets the keys whose record is gone
Forget(cy, led) == [c \in Procs |-> [cy[c] EXCEPT !.held = @ \cap LedgerKeys(led)]]

\* send_telegram_alert not yet called
BatchReady == [state |-> "ready", sent |-> <<>>]

\* the scraper is not looked at on its own
ScrOff == ScrReady("toppreise",
                   [manufacturer |-> <<>>, name |-> <<>>, old |-> NoneVal,
                    new |-> NoneVal, url |-> ""], <<>>)

\* scraper.py lines 75-153: the list the whole card loop leaves in products
RECURSIVE CardLoop(_, _)
CardLoop(cards, rules) ==
  IF cards = <<>> THEN <<>>
  ELSE CardProducts(Head(cards), rules) \o CardLoop(Tail(cards), rules)

\* the card loop of scrape_best_prices has not started
PageReady(cards, rules) ==
  [state |-> "ready", cards |-> cards, rules |-> rules, i |-> 1,
   products |-> <<>>]

\* the card loop is not looked at on its own
PageOff == PageReady(<<>>, <<>>)

\* request threads of the web server
Threads == 1..MaxThreads

\* values of the setting monitoring_interval_minutes: the default of
\* _start_scheduler and two values a settings form posts
DefaultInterval == 30
Intervals == {DefaultInterval, 10, 20}

\* a request thread between two requests
ThreadIdle == [op |-> "", pc |-> "idle", interval |-> 0]

\* no job registered, default interval, no request under way
SchedOff ==
  [jobs |-> {}, setting |-> DefaultInterval, failed |-> FALSE,
   req |-> [t \in Threads |-> ThreadIdle]]

Init ==
  /\ mode \in {"app", "main"}
  /\ now = RetentionHours
  /\ ledger = EmptyLedger
  /\ rulesOn \in BOOLEAN
  /\ configured \in BOOLEAN
  /\ (mode = "main" => rulesOn /\ configured)
  /\ cyc = [c \in Procs |-> Idle]
  /\ started = 0
  /\ job = (mode = "main")
  /\ batchIn = <<>>
  /\ batchOut = BatchReady
  /\ scr = ScrOff
  /\ sched = SchedOff
  /\ price = PriceOff
  /\ page = PageOff

\* --------------------------------------------------------- app.py scan_job
\* the start of scan_job going on to the fetch whatever the rules are
ScanJobBeginFetches(c) ==
  /\ Free(c)
  /\ started < MaxCycles
  /\ started' = started + 1
  /\ cyc' = [cyc EXCEPT ![c] =
       [Idle EXCEPT !.pc = "scrape", !.cfg = configured,
                    !.held = LedgerKeys(ledger)]]

\* lines 34-44: read the enabled rules and the settings
ScanJobBegin(c) ==
  /\ Free(c)
  /\ started < MaxCycles
  /\ started' = started + 1
  /\ cyc' = [cyc EXCEPT ![c] =
       IF ~rulesOn THEN Returned(c)
       ELSE [Idle EXCEPT !.pc = "scrape", !.cfg = configured,
                         !.held = LedgerKeys(ledger)]]

\* the fetch with the cleanup run on the way out of a failed fetch
ScanJobScrapeCleans(c) ==
  /\ mode = "app"
  /\ cyc[c].pc = "scrape"
  /\ \/ /\ ledger' = CleanupOld(ledger, RetentionHours, now)
        /\ cyc' = Forget([cyc EXCEPT ![c] = Returned(c)], ledger')
     \/ /\ \E ps \in SeqsUpTo(AppCatalog, MaxProducts) :
             cyc' = [cyc EXCEPT ![c] =
               IF ps = <<>> THEN Returned(c)
               ELSE [@ EXCEPT !.pc = "dedup", !.products = ps]]
        /\ UNCHANGED ledger
  /\ UNCHANGED <<mode, now, rulesOn, configured, started, job,
                 batchIn, batchOut, scr, sched, price, page>>

\* lines 46-57: the fetch and its two early returns
ScanJobScrape(c) ==
  /\ mode = "app"
  /\ cyc[c].pc = "scrape"
  /\ \/ cyc' = [cyc EXCEPT ![c] = Returned(c)]
     \/ \E ps \in SeqsUpTo(AppCatalog, MaxProducts) :
          cyc' = [cyc EXCEPT ![c] =
            IF ps = <<>> THEN Returned(c)
            ELSE [@ EXCEPT !.pc = "dedup", !.products = ps]]
  /\ UNCHANGED <<mode, now, ledger, rulesOn, configured, started, job,
                 batchIn, batchOut, scr, sched, price, page>>

\* lines 59-67: the intra-scan dedup; products is rebound to the result
ScanJobDedup(c) ==
  /\ mode = "app"
  /\ cyc[c].pc = "dedup"
  /\ cyc' = [cyc EXCEPT ![c].pc = "filter",
                        ![c].products = Dedup(cyc[c].products, {}),
                        ![c].i = 1]
  /\ UNCHANGED <<mode, now, ledger, rulesOn, configured, started, job,
                 batchIn, batchOut, scr, sched, price, page>>

\* the end of the filter loop with a return where the transport is unset
AfterFilterAborts(c, l) ==
  IF l.new_products = <<>> THEN Returned(c)
  ELSE IF l.cfg THEN [l EXCEPT !.pc = "send", !.msgs = Messages(l.new_products)]
  ELSE Returned(c)

\* lines 79-92 as reached from the end of the filter loop: the early return
\* and the transport check
AfterFilter(c, l) ==
  IF l.new_products = <<>> THEN Returned(c)
  ELSE IF l.cfg THEN [l EXCEPT !.pc = "send", !.msgs = Messages(l.new_products)]
  ELSE [l EXCEPT !.pc = "record", !.i = 1]

\* lines 70-83: one turn of the ledger filter loop
ScanJobFilter(c) ==
  /\ mode = "app"
  /\ cyc[c].pc = "filter"
  /\ LET l  == cyc[c]
         p  == l.products[l.i]
         np == IF ~AlreadyAlerted(ledger, KeyUrl(p), p.new_price)
               THEN Append(l.new_products, p) ELSE l.new_products
         l1 == [l EXCEPT !.new_products = np, !.i = l.i + 1]
     IN  cyc' = [cyc EXCEPT ![c] =
                   IF l.i < Len(l.products) THEN l1 ELSE AfterFilter(c, l1)]
  /\ UNCHANGED <<mode, now, ledger, rulesOn, configured, started, job,
                 batchIn, batchOut, scr, sched, price, page>>

\* the send with the products recorded as soon as a message is out
ScanJobSendRecords(c) ==
  /\ mode = "app"
  /\ cyc[c].pc = "send"
  /\ \E ok \in BOOLEAN :
       LET l  == cyc[c]
           l1 == [l EXCEPT !.sent = Append(@, ok)]
       IN  /\ cyc' = [cyc EXCEPT ![c] =
                IF ok /\ Len(l1.sent) < Len(l.msgs) THEN l1
                ELSE [l1 EXCEPT !.pc = "record", !.i = 1]]
           /\ ledger' = IF ok THEN RecordAll(ledger, l.msgs[Len(l1.sent)], now)
                        ELSE ledger
  /\ UNCHANGED <<mode, now, rulesOn, configured, started, job,
                 batchIn, batchOut, scr, sched, price, page>>

\* notifier.py lines 31-48 under app.py lines 87-90: one bot.send_message;
\* an exception leaves send_telegram_alert and is caught by scan_job
ScanJobSend(c) ==
  /\ mode = "app"
  /\ cyc[c].pc = "send"
  /\ \E ok \in BOOLEAN :
       LET l  == cyc[c]
           l1 == [l EXCEPT !.sent = Append(@, ok)]
       IN  cyc' = [cyc EXCEPT ![c] =
             IF ok /\ Len(l1.sent) < Len(l.msgs) THEN l1
             ELSE [l1 EXCEPT !.pc = "record", !.i = 1]]
  /\ UNCHANGED <<mode, now, ledger, rulesOn, configured, started, job,
                 batchIn, batchOut, scr, sched, price, page>>

\* lines 95-103: one turn of the record loop
ScanJobRecord(c) ==
  /\ mode = "app"
  /\ cyc[c].pc = "record"
  /\ LET l == cyc[c]
         p == l.new_products[l.i]
     IN  /\ ledger' = RecordAlert(ledger, KeyUrl(p), p.new_price,
                                  p.matched_rule_id, now)
         /\ cyc' = [cyc EXCEPT ![c].i = l.i + 1,
                               ![c].pc = IF l.i < Len(l.new_products)
                                         THEN "record" ELSE "cleanup"]
  /\ UNCHANGED <<mode, now, rulesOn, configured, started, job,
                 batchIn, batchOut, scr, sched, price, page>>

\* lines 106-107
ScanJobCleanup(c) ==
  /\ mode = "app"
  /\ cyc[c].pc = "cleanup"
  /\ ledger' = CleanupOld(ledger, RetentionHours, now)
  /\ cyc' = Forget([cyc EXCEPT ![c] = Returned(c)], ledger')
  /\ UNCHANGED <<mode, now, rulesOn, configured, started, job,
                 batchIn, batchOut, scr, sched, price, page>>

\* -------------------------------------------------------- main.py run_scan
\* lines 31-38, up to the await of the fetch
RunScanBegin(c) ==
  /\ Free(c)
  /\ cyc["first"].pc # "raised"
  /\ started < MaxCycles
  /\ started' = started + 1
  /\ cyc' = [cyc EXCEPT ![c] = [Idle EXCEPT !.pc = "scrape", !.cfg = TRUE,
                                            !.held = LedgerKeys(ledger)]]

\* lines 38-71: the fetch returns and the coroutine runs, without yielding,
\* through the ledger filter to the first await of a send
RunScanScrape(c) ==
  /\ mode = "main"
  /\ cyc[c].pc = "scrape"
  /\ \/ cyc' = [cyc EXCEPT ![c] = Returned(c)]
     \/ \E ps \in SeqsUpTo(MainCatalog, MaxProducts) :
          LET np == FilterAll(ledger, ps)
          IN  cyc' = [cyc EXCEPT ![c] =
                IF ps = <<>> \/ np = <<>> THEN Returned(c)
                ELSE [@ EXCEPT !.pc = "send", !.products = ps,
                               !.i = Len(ps) + 1, !.new_products = np,
                               !.msgs = Messages(np)]]
  /\ UNCHANGED <<mode, now, ledger, rulesOn, configured, started, job,
                 batchIn, batchOut, scr, sched, price, page>>

\* notifier.py lines 31-48 under main.py lines 70-84: one bot.send_message
\* completes; an exception ends run_scan (line 74), the last success runs
\* the record loop and the cleanup without yielding
RunScanSend(c) ==
  /\ mode = "main"
  /\ cyc[c].pc = "send"
  /\ \E ok \in BOOLEAN :
       LET l  == cyc[c]
           l1 == [l EXCEPT !.sent = Append(@, ok)]
       IN  IF ~ok
           THEN /\ cyc' = [cyc EXCEPT ![c] = Returned(c)]
                /\ UNCHANGED ledger
           ELSE IF Len(l1.sent) < Len(l.msgs)
           THEN /\ cyc' = [cyc EXCEPT ![c] = l1]
                /\ UNCHANGED ledger
           ELSE /\ ledger' = CleanupOld(RecordAll(ledger, l.new_products, now),
                                        RetentionHours, now)
                /\ cyc' = Forget([cyc EXCEPT ![c] = Returned(c)], ledger')
  /\ UNCHANGED <<mode, now, rulesOn, configured, started, job,
                 batchIn, batchOut, scr, sched, price, page>>

\* ---------------------------------------------------------------- triggers
\* the interval trigger of the job added with max_instances=1 (app.py lines
\* 114-121, main.py lines 103-110): the job function is submitted unless an
\* instance submitted by the scheduler is still running, then the run is
\* skipped
TimerTick ==
  /\ job
  /\ Running
  /\ mode = "main" => cyc["first"].pc # "idle"
  /\ IF Free("timer")
     THEN IF mode = "app" THEN ScanJobBegin("timer") ELSE RunScanBegin("timer")
     ELSE UNCHANGED <<cyc, started>>
  /\ UNCHANGED <<mode, now, ledger, rulesOn, configured, job, batchIn, batchOut, scr, sched, price, page>>

\* app.py lines 238-243: a new thread runs scan_job; one such thread at a time
MonitorRunNow ==
  /\ mode = "app"
  /\ ScanJobBegin("manual")
  /\ UNCHANGED <<mode, now, ledger, rulesOn, configured, job,
                 batchIn, batchOut, scr, sched, price, page>>

\* main.py line 118: the immediate first scan, called by main() itself
FirstScan ==
  /\ mode = "main"
  /\ RunScanBegin("first")
  /\ UNCHANGED <<mode, now, ledger, rulesOn, configured, job,
                 batchIn, batchOut, scr, sched, price, page>>

\* app.py lines 226-229 and 110-124
MonitorStart ==
  /\ mode = "app"
  /\ Running
  /\ job' = TRUE
  /\ UNCHANGED <<mode, now, ledger, rulesOn, configured, cyc, started,
                 batchIn, batchOut, scr, sched, price, page>>

\* app.py lines 232-235 and 127-130
MonitorStop ==
  /\ mode = "app"
  /\ Running
  /\ job' = FALSE
  /\ UNCHANGED <<mode, now, ledger, rulesOn, configured, cyc, started,
                 batchIn, batchOut, scr, sched, price, page>>

\* time passes
Advance ==
  /\ now + ClockStep <= MaxTime
  /\ now' = now + ClockStep
  /\ UNCHANGED <<mode, ledger, rulesOn, configured, cyc, started,
                 job, batchIn, batchOut, scr, sched, price, page>>

Next ==
  \/ TimerTick
  \/ MonitorRunNow
  \/ FirstScan
  \/ MonitorStart
  \/ MonitorStop
  \/ Advance
  \/ \E c \in Procs :
       \/ ScanJobScrape(c)
       \/ ScanJobDedup(c)
       \/ ScanJobFilter(c)
       \/ ScanJobSend(c)
       \/ ScanJobRecord(c)
       \/ ScanJobCleanup(c)
       \/ RunScanScrape(c)
       \/ RunScanSend(c)

Spec == Init /\ [][Next]_vars

\* -------------------------------------------------- failures of the ledger
\* an exception leaves scan_job or run_scan, neither of which catches it.
\* The job executor of the scheduler and the thread of monitor_run_now end
\* there and log it; the first scan is awaited by main() itself (main.py line
\* 118), so the exception leaves main(), asyncio.run cancels the timer's
\* coroutine and the process ends with the scheduler
Propagate(c, what) ==
  IF mode = "main" /\ c = "first"
  THEN /\ cyc' = [d \in Procs |->
                    IF d = c THEN Raised(cyc[c], what) ELSE Idle]
       /\ job' = FALSE
  ELSE /\ cyc' = [cyc EXCEPT ![c] = Raised(cyc[c], what)]
       /\ job' = job

\* the filter loop with the failing lookup caught and the product taken as new
ScanJobFilterSkips(c) ==
  /\ mode = "app"
  /\ cyc[c].pc = "filter"
  /\ LET l  == cyc[c]
         l1 == [l EXCEPT !.new_products = Append(@, l.products[l.i]),
                         !.i = l.i + 1, !.dberr = "read"]
     IN  cyc' = [cyc EXCEPT ![c] =
                   IF l.i < Len(l.products) THEN l1 ELSE AfterFilter(c, l1)]
  /\ UNCHANGED <<mode, now, ledger, rulesOn, configured, started, job,
                 batchIn, batchOut, scr, sched, price, page>>

\* app.py lines 70-75: already_alerted raises (db.py lines 73-79)
ScanJobFilterFails(c) ==
  /\ mode = "app"
  /\ cyc[c].pc = "filter"
  /\ Propagate(c, "read")
  /\ UNCHANGED <<mode, now, ledger, rulesOn, configured, started,
                 batchIn, batchOut, scr, sched, price, page>>

\* app.py lines 95-103: record_alert raises (db.py lines 81-92)
ScanJobRecordFails(c) ==
  /\ mode = "app"
  /\ cyc[c].pc = "record"
  /\ Propagate(c, "write")
  /\ UNCHANGED <<mode, now, ledger, rulesOn, configured, started,
                 batchIn, batchOut, scr, sched, price, page>>

\* app.py lines 106-107: cleanup_old raises (db.py lines 94-104)
ScanJobCleanupFails(c) ==
  /\ mode = "app"
  /\ cyc[c].pc = "cleanup"
  /\ Propagate(c, "cleanup")
  /\ UNCHANGED <<mode, now, ledger, rulesOn, configured, started,
                 batchIn, batchOut, scr, sched, price, page>>

\* main.py lines 54-61: the fetch returned products and already_alerted raises
RunScanFilterFails(c) ==
  /\ mode = "main"
  /\ cyc[c].pc = "scrape"
  /\ Propagate(c, "read")
  /\ UNCHANGED <<mode, now, ledger, rulesOn, configured, started,
                 batchIn, batchOut, scr, sched, price, page>>

\* main.py lines 76-82: the last message is out; record_alert raises at the
\* k-th product, or cleanup_old raises after the record loop
RunScanLedgerFails(c) ==
  /\ mode = "main"
  /\ cyc[c].pc = "send"
  /\ Len(cyc[c].sent) + 1 = Len(cyc[c].msgs)
  /\ \E k \in 1..(Len(cyc[c].new_products) + 1) :
       /\ ledger' = RecordAll(ledger, SubSeq(cyc[c].new_products, 1, k - 1),
                              now)
       /\ LET l    == [cyc[c] EXCEPT !.sent = Append(@, TRUE)]
              what == IF k <= Len(cyc[c].new_products) THEN "write"
                      ELSE "cleanup"
          IN  IF c = "first"
              THEN /\ cyc' = [d \in Procs |->
                                IF d = c THEN Raised(l, what) ELSE Idle]
                   /\ job' = FALSE
              ELSE /\ cyc' = [cyc EXCEPT ![c] = Raised(l, what)]
                   /\ job' = job
  /\ UNCHANGED <<mode, now, rulesOn, configured, started,
                 batchIn, batchOut, scr, sched, price, page>>

FaultNext ==
  \/ Next
  \/ \E c \in Procs :
       \/ ScanJobFilterFails(c)
       \/ ScanJobRecordFails(c)
       \/ ScanJobCleanupFails(c)
       \/ RunScanFilterFails(c)
       \/ RunScanLedgerFails(c)

\* the state after construction with one scan cycle left to start: the
\* failures are followed through a single cycle
FaultInit ==
  /\ mode \in {"app", "main"}
  /\ now = RetentionHours
  /\ ledger = EmptyLedger
  /\ rulesOn \in BOOLEAN
  /\ configured \in BOOLEAN
  /\ (mode = "main" => rulesOn /\ configured)
  /\ cyc = [c \in Procs |-> Idle]
  /\ started = MaxCycles - 1
  /\ job = (mode = "main")
  /\ batchIn = <<>>
  /\ batchOut = BatchReady
  /\ scr = ScrOff
  /\ sched = SchedOff
  /\ price = PriceOff
  /\ page = PageOff

FaultSpec == FaultInit /\ [][FaultNext]_vars

\* ---------------------------------------------------------------- shutdown
\* SIGINT or SIGTERM arrives. app.py installs no handler and waits for no
\* thread: the scheduler (line 27, daemon=True) and the thread of
\* monitor_run_now (line 241, daemon=True) end with the process, wherever
\* scan_job stands. main.py installs its handlers after the first scan
\* (lines 118-130), so a signal during the first scan ends the process;
\* later handle_signal sets stop_event, main() calls
\* scheduler.shutdown(wait=False) and returns, and asyncio.run cancels the
\* coroutine of a running job at the await it stands at
Shutdown ==
  /\ Running
  /\ cyc' = [c \in Procs |-> Killed(cyc[c])]
  /\ job' = FALSE
  /\ UNCHANGED <<mode, now, ledger, rulesOn, configured, started,
                 batchIn, batchOut, scr, sched, price, page>>

ShutdownNext ==
  \/ Next
  \/ Shutdown

ShutdownSpec == FaultInit /\ [][ShutdownNext]_vars

\* ------------------------------------------- send_telegram_alert on its own
\* every product shape format_message distinguishes: short or long name,
\* with or without shop, with or without link
BatchCatalog ==
  {[name |-> n, old_price |-> "CHF 599.00", new_price |-> "CHF 499.00",
    discount |-> "-17%", shop |-> sh, url |-> u, matched_rule_id |-> 1] :
     n \in {"iPad", BigName}, sh \in {"", "Shop"}, u \in {"", "/ipad"}}

BatchInit ==
  /\ mode = "app"
  /\ now = RetentionHours
  /\ ledger = EmptyLedger
  /\ rulesOn = TRUE
  /\ configured = TRUE
  /\ cyc = [c \in Procs |-> Idle]
  /\ started = 0
  /\ job = FALSE
  /\ batchIn \in SeqsUpTo(BatchCatalog, MaxBatch)
  /\ batchOut = BatchReady
  /\ scr = ScrOff
  /\ sched = SchedOff
  /\ price = PriceOff
  /\ page = PageOff

\* notifier.py lines 24-28: the empty list returns at once
BatchCall ==
  /\ batchOut.state = "ready"
  /\ batchOut' = [batchOut EXCEPT !.state = IF batchIn = <<>> THEN "returned"
                                            ELSE "sending"]
  /\ UNCHANGED <<mode, now, ledger, rulesOn, configured, cyc, started, job,
                 batchIn, scr, sched, price, page>>

\* notifier.py lines 31-48: the next message is handed to bot.send_message,
\* which returns or raises
BatchSend ==
  /\ batchOut.state = "sending"
  /\ \E ok \in BOOLEAN :
       LET msgs == Messages(batchIn)
           sent == Append(batchOut.sent, msgs[Len(batchOut.sent) + 1])
       IN  batchOut' = [state |-> IF ~ok THEN "raised"
                                  ELSE IF Len(sent) < Len(msgs) THEN "sending"
                                  ELSE "returned",
                        sent |-> sent]
  /\ UNCHANGED <<mode, now, ledger, rulesOn, configured, cyc, started, job,
                 batchIn, scr, sched, price, page>>

BatchNext == BatchCall \/ BatchSend

BatchSpec == BatchInit /\ [][BatchNext]_vars

\* ------------------------------------------- the scheduler routes on their own
\* Flask serves every request on a thread of its own; each call into the
\* scheduler (get_job, remove_job, add_job) and each statement of the settings
\* table is one step, and the steps of two requests interleave
SchedInit ==
  /\ mode = "app"
  /\ now = RetentionHours
  /\ ledger = EmptyLedger
  /\ rulesOn = TRUE
  /\ configured = TRUE
  /\ cyc = [c \in Procs |-> Idle]
  /\ started = 0
  /\ job = FALSE
  /\ batchIn = <<>>
  /\ batchOut = BatchReady
  /\ scr = ScrOff
  /\ sched = SchedOff
  /\ price = PriceOff
  /\ page = PageOff

\* the request is answered
Answered(t) == [sched EXCEPT !.req[t] = ThreadIdle]

\* app.py lines 226-228: POST /monitor/start enters _start_scheduler
MonitorStartRequest(t) ==
  /\ sched.req[t].pc = "idle"
  /\ sched' = [sched EXCEPT !.req[t] = [op |-> "start", pc |-> "read",
                                        interval |-> 0]]
  /\ UNCHANGED <<mode, now, ledger, rulesOn, configured, cyc, started, job,
                 batchIn, batchOut, scr, price, page>>

\* app.py lines 232-234: POST /monitor/stop enters _stop_scheduler
MonitorStopRequest(t) ==
  /\ sched.req[t].pc = "idle"
  /\ sched' = [sched EXCEPT !.req[t] = [op |-> "stop", pc |-> "get",
                                        interval |-> 0]]
  /\ UNCHANGED <<mode, now, ledger, rulesOn, configured, cyc, started, job,
                 batchIn, batchOut, scr, price, page>>

\* app.py lines 190-196: POST /settings stores the posted interval
SettingsPost(t) ==
  /\ sched.req[t].pc = "idle"
  /\ \E v \in Intervals :
       sched' = [sched EXCEPT !.setting = v,
                              !.req[t] = [op |-> "settings", pc |-> "check",
                                          interval |-> 0]]
  /\ UNCHANGED <<mode, now, ledger, rulesOn, configured, cyc, started, job,
                 batchIn, batchOut, scr, price, page>>

\* app.py lines 198-200 and 133-134: restart only if monitoring is active
IsMonitoring(t) ==
  /\ sched.req[t].pc = "check"
  /\ sched' = IF sched.jobs # {} THEN [sched EXCEPT !.req[t].pc = "read"]
              ELSE Answered(t)
  /\ UNCHANGED <<mode, now, ledger, rulesOn, configured, cyc, started, job,
                 batchIn, batchOut, scr, price, page>>

\* app.py line 111: _start_scheduler reads the interval setting
ReadInterval(t) ==
  /\ sched.req[t].pc = "read"
  /\ sched' = [sched EXCEPT !.req[t].pc = "get",
                            !.req[t].interval = sched.setting]
  /\ UNCHANGED <<mode, now, ledger, rulesOn, configured, cyc, started, job,
                 batchIn, batchOut, scr, price, page>>

\* app.py lines 112 and 128: scheduler.get_job(SCAN_JOB_ID)
GetJob(t) ==
  /\ sched.req[t].pc = "get"
  /\ sched' = IF sched.jobs # {} THEN [sched EXCEPT !.req[t].pc = "remove"]
              ELSE IF sched.req[t].op = "stop" THEN Answered(t)
              ELSE [sched EXCEPT !.req[t].pc = "add"]
  /\ UNCHANGED <<mode, now, ledger, rulesOn, configured, cyc, started, job,
                 batchIn, batchOut, scr, price, page>>

\* app.py lines 113 and 129: scheduler.remove_job(SCAN_JOB_ID) raises
\* JobLookupError when no job has that id, and the request fails
RemoveJob(t) ==
  /\ sched.req[t].pc = "remove"
  /\ sched' = IF sched.jobs = {}
              THEN [Answered(t) EXCEPT !.failed = TRUE]
              ELSE IF sched.req[t].op = "stop"
              THEN [Answered(t) EXCEPT !.jobs = {}]
              ELSE [sched EXCEPT !.jobs = {}, !.req[t].pc = "add"]
  /\ UNCHANGED <<mode, now, ledger, rulesOn, configured, cyc, started, job,
                 batchIn, batchOut, scr, price, page>>

\* app.py lines 114-124: add_job with replace_existing=True leaves one job
\* with the id, whatever was registered
AddJob(t) ==
  /\ sched.req[t].pc = "add"
  /\ sched' = [Answered(t) EXCEPT !.jobs = {sched.req[t].interval}]
  /\ UNCHANGED <<mode, now, ledger, rulesOn, configured, cyc, started, job,
                 batchIn, batchOut, scr, price, page>>

SchedNext ==
  \E t \in Threads :
    \/ MonitorStartRequest(t)
    \/ MonitorStopRequest(t)
    \/ SettingsPost(t)
    \/ IsMonitoring(t)
    \/ ReadInterval(t)
    \/ GetJob(t)
    \/ RemoveJob(t)
    \/ AddJob(t)

SchedSpec == SchedInit /\ [][SchedNext]_vars

\* --------------------------------------------------- _parse_price on its own
ParseInit ==
  /\ mode = "app"
  /\ now = RetentionHours
  /\ ledger = EmptyLedger
  /\ rulesOn = TRUE
  /\ configured = TRUE
  /\ cyc = [c \in Procs |-> Idle]
  /\ started = 0
  /\ job = FALSE
  /\ batchIn = <<>>
  /\ batchOut = BatchReady
  /\ scr = ScrOff
  /\ sched = SchedOff
  /\ \E text \in SeqsUpTo(PriceChars, MaxText) : price = PriceReady(text)
  /\ page = PageOff

\* scraper.py lines 195-202: the call returns
ParseCall ==
  /\ price.state = "ready"
  /\ price' = [price EXCEPT !.state = "parsed",
                            !.value = ParsePrice(price.text)]
  /\ UNCHANGED <<mode, now, ledger, rulesOn, configured, cyc, started, job,
                 batchIn, batchOut, scr, sched, page>>

ParseNext == ParseCall

ParseSpec == ParseInit /\ [][ParseNext]_vars

\* ------------------------------------------------------ the scraper on its own
\* what a product card or a feed entry can hold: a brand in mixed case, lower
\* case or none, a product name or none, prices that parse, are zero or are
\* missing, with a discount of exactly 20 percent or of 19.99 percent
ScrCandidates ==
  [manufacturer : {<<"A", "p">>, <<"a">>, <<>>},
   name         : {<<"P", "a">>, <<>>},
   old          : {NoneVal, 0, 100 * Franc},
   new          : {NoneVal, 80 * Franc, 80 * Franc + 1},
   url          : {"", "/p"}]

\* rows of watch_rules without their id
ScrRuleRows ==
  [rule_type : {"brand", "keyword"},
   value : {<<"A", "P">>, <<"p", "a">>},
   min_discount_percent : {0, 20 * Franc}]

\* get_enabled_rules: rows in the order of their ids
ScrRules ==
  {[k \in DOMAIN rows |->
      [id |-> k, rule_type |-> rows[k].rule_type, value |-> rows[k].value,
       min_discount_percent |-> rows[k].min_discount_percent]] :
     rows \in SeqsUpTo(ScrRuleRows, MaxRules)}

MatchInit ==
  /\ mode = "app"
  /\ now = RetentionHours
  /\ ledger = EmptyLedger
  /\ rulesOn = TRUE
  /\ configured = TRUE
  /\ cyc = [c \in Procs |-> Idle]
  /\ started = 0
  /\ job = FALSE
  /\ batchIn = <<>>
  /\ batchOut = BatchReady
  /\ \E path \in {"toppreise", "rss"}, cand \in ScrCandidates,
        rules \in ScrRules : scr = ScrReady(path, cand, rules)
  /\ sched = SchedOff
  /\ price = PriceOff
  /\ page = PageOff

\* scrape_best_prices, lines 75-153, for the one card of the page
ScrapeCard ==
  /\ scr.state = "ready"
  /\ scr.path = "toppreise"
  /\ scr' = [scr EXCEPT !.state = "matched",
                        !.call = CardCall(scr.cand, scr.rules),
                        !.products = CardProducts(scr.cand, scr.rules)]
  /\ UNCHANGED <<mode, now, ledger, rulesOn, configured, cyc, started, job,
                 batchIn, batchOut, sched, price, page>>

\* scrape_preispirat_rss, lines 224-280, for the one entry of the feed
ScrapeEntry ==
  /\ scr.state = "ready"
  /\ scr.path = "rss"
  /\ scr' = [scr EXCEPT !.state = "matched",
                        !.call = RssCall(scr.cand, scr.rules),
                        !.products = RssProducts(scr.cand, scr.rules)]
  /\ UNCHANGED <<mode, now, ledger, rulesOn, configured, cyc, started, job,
                 batchIn, batchOut, sched, price, page>>

\* app.py lines 48-67: scan_job takes the list scrape_best_prices returned
\* and, unless it is empty, runs the intra-scan dedup on it
DedupMatched ==
  /\ scr.state = "matched"
  /\ scr.path = "toppreise"
  /\ scr.products # <<>>
  /\ scr' = [scr EXCEPT !.state = "deduped",
                        !.deduped = Dedup(scr.products, {})]
  /\ UNCHANGED <<mode, now, ledger, rulesOn, configured, cyc, started, job,
                 batchIn, batchOut, sched, price, page>>

\* scraper.py lines 47-53: page.goto is given timeout=30000; when it fails or
\* times out the browser is closed and the empty list is returned
GotoFails ==
  /\ scr.state = "ready"
  /\ scr.path = "toppreise"
  /\ scr' = [scr EXCEPT !.state = "matched"]
  /\ UNCHANGED <<mode, now, ledger, rulesOn, configured, cyc, started, job,
                 batchIn, batchOut, sched, price, page>>

\* scraper.py lines 218-221: urlopen raises (URLError) and nothing catches it
UrlopenRaises ==
  /\ scr.state = "ready"
  /\ scr.path = "rss"
  /\ scr' = [scr EXCEPT !.state = "raised"]
  /\ UNCHANGED <<mode, now, ledger, rulesOn, configured, cyc, started, job,
                 batchIn, batchOut, sched, price, page>>

\* scraper.py line 220: urlopen is called without a timeout, so a server that
\* accepts the connection and never answers keeps the call waiting for ever
UrlopenBlocks ==
  /\ scr.state = "ready"
  /\ scr.path = "rss"
  /\ scr' = [scr EXCEPT !.state = "blocked"]
  /\ UNCHANGED <<mode, now, ledger, rulesOn, configured, cyc, started, job,
                 batchIn, batchOut, sched, price, page>>

MatchNext ==
  \/ ScrapeCard
  \/ ScrapeEntry
  \/ DedupMatched
  \/ GotoFails
  \/ UrlopenRaises
  \/ UrlopenBlocks

MatchSpec == MatchInit /\ [][MatchNext]_vars

\* ------------------------------------------------- the card loop on its own
\* cards of one brand and name whose prices parse or do not, with two links
PageCards ==
  {c \in ScrCandidates :
     /\ c.manufacturer = <<"A", "p">>
     /\ c.name = <<"P", "a">>
     /\ c.old \in {NoneVal, 100 * Franc}
     /\ c.new \in {NoneVal, 80 * Franc}}

PageInit ==
  /\ mode = "app"
  /\ now = RetentionHours
  /\ ledger = EmptyLedger
  /\ rulesOn = TRUE
  /\ configured = TRUE
  /\ cyc = [c \in Procs |-> Idle]
  /\ started = 0
  /\ job = FALSE
  /\ batchIn = <<>>
  /\ batchOut = BatchReady
  /\ scr = ScrOff
  /\ sched = SchedOff
  /\ price = PriceOff
  /\ \E cards \in SeqsUpTo(PageCards, MaxCards), rules \in ScrRules :
       page = PageReady(cards, rules)

\* the card loop with a card whose price does not parse ending the fetch
CardStepAborts ==
  /\ page.state = "ready"
  /\ page.i <= Len(page.cards)
  /\ LET card == page.cards[page.i]
     IN  page' = IF card.old = NoneVal \/ card.new = NoneVal
                 THEN [page EXCEPT !.state = "returned", !.products = <<>>]
                 ELSE [page EXCEPT !.i = @ + 1,
                         !.products = @ \o CardProducts(card, page.rules)]
  /\ UNCHANGED <<mode, now, ledger, rulesOn, configured, cyc, started, job,
                 batchIn, batchOut, scr, sched, price>>

\* scraper.py lines 75-153: one turn of the card loop; whatever a card
\* raises is caught inside the turn (lines 151-153)
CardStep ==
  /\ page.state = "ready"
  /\ page.i <= Len(page.cards)
  /\ page' = [page EXCEPT !.i = @ + 1,
                !.products = @ \o CardProducts(page.cards[page.i], page.rules)]
  /\ UNCHANGED <<mode, now, ledger, rulesOn, configured, cyc, started, job,
                 batchIn, batchOut, scr, sched, price>>

\* scraper.py lines 155-170: the loop is over and products is returned
PageReturn ==
  /\ page.state = "ready"
  /\ page.i > Len(page.cards)
  /\ page' = [page EXCEPT !.state = "returned"]
  /\ UNCHANGED <<mode, now, ledger, rulesOn, configured, cyc, started, job,
                 batchIn, batchOut, scr, sched, price>>

PageNext == CardStep \/ PageReturn

PageSpec == PageInit /\ [][PageNext]_vars


\* ================================================================== claims
\* products a cycle has handed or will hand to the delivery collaborator
Handed(c) ==
  Range(cyc[c].new_products)
    \cup UNION {Range(cyc[c].msgs[k]) : k \in DOMAIN cyc[c].msgs}

\* the cycle of c returns in this step
Returns(c) == InFlight(c) /\ ~InFlight(c)'

\* hours since row r was recorded
Age(r) == now - r.alerted_at

\* C1: at most one scan cycle is between its start and its terminal state,
\* whatever started it (timer, run-now request, immediate first scan).
SingleFlight == Cardinality({c \in Procs : InFlight(c)}) <= 1

\* C2: a product whose key has had a ledger record ever since the cycle
\* started is never among the products the cycle hands to the delivery
\* collaborator.
CrossScanSuppression ==
  \A c \in Procs : \A p \in Handed(c) : Key(p) \notin cyc[c].held

\* C2 witness: a cycle is sending while one of its candidates has a key that
\* was recorded before the cycle started and still is.
SuppressedWhileSending ==
  \E c \in Procs :
    /\ cyc[c].pc = "send"
    /\ \E k \in DOMAIN cyc[c].products : Key(cyc[c].products[k]) \in cyc[c].held

\* C3: the ledger never holds two AlertRecords of one product key that are
\* both inside the retention window.
NoDuplicateInWindow ==
  \A r1, r2 \in DOMAIN ledger :
    (/\ r1.product_url = r2.product_url
     /\ r1.price = r2.price
     /\ Age(r1) <= RetentionHours
     /\ Age(r2) <= RetentionHours)
    => (r1 = r2 /\ ledger[r1] = 1)

\* C4: the list a cycle takes to the ledger check holds one product per
\* distinct key.
IntraScanDedup ==
  \A c \in Procs :
    cyc[c].pc \in {"filter", "send", "record", "cleanup"}
    => \A j, k \in DOMAIN cyc[c].products :
         j # k => Key(cyc[c].products[j]) # Key(cyc[c].products[k])

\* C5: a cycle that attempted a send does not return before every surviving
\* product has its AlertRecord, whether the send returned or raised.
RecordingIndependentOfDelivery ==
  [][\A c \in Procs :
       /\ (cyc[c].pc = "send" /\ Returns(c))
          => \A k \in DOMAIN cyc[c].new_products :
               AlreadyAlerted(ledger', KeyUrl(cyc[c].new_products[k]),
                              cyc[c].new_products[k].new_price)
       /\ (cyc[c].pc = "cleanup" /\ Returns(c) /\ cyc[c].sent # <<>>)
          => cyc[c].i = Len(cyc[c].new_products) + 1]_vars

\* C6: send_telegram_alert hands over nothing for an empty list, one message
\* with every product when the combined text is at most 4096 characters, and
\* otherwise one message per product in input order; what it has handed over
\* so far is always a prefix of that grouping.
BatchingAllOrNothing ==
  LET n    == Len(batchIn)
      out  == batchOut.sent
      each == [k \in 1..n |-> <<batchIn[k]>>]
      want == IF n = 0 THEN <<>>
              ELSE IF FormatLen(batchIn) <= TelegramLimit THEN <<batchIn>>
              ELSE each
  IN  /\ Len(out) <= Len(want)
      /\ \A k \in DOMAIN out : out[k] = want[k]
      /\ batchOut.state = "returned" => out = want
      /\ batchOut.state = "raised" => out # <<>>
      /\ (batchOut.state # "ready" /\ n = 0) => batchOut.state = "returned"

\* C6 witness: three products too long for one message went out as three
\* messages.
BatchSplitPerProduct ==
  /\ batchOut.state = "returned"
  /\ Len(batchIn) = 3
  /\ FormatLen(batchIn) > TelegramLimit
  /\ Len(batchOut.sent) = 3

\* C7: a cycle leaves its notification step only when the send it has just
\* made was the one for the last message of the batch, also after a send
\* that failed.
EveryMessageSent ==
  [][\A c \in Procs :
       (cyc[c].pc = "send" /\ cyc'[c].pc # "send")
       => Len(cyc[c].sent) + 1 = Len(cyc[c].msgs)]_vars

\* C8: the timer starts a cycle only when no cycle is in flight.
TimerDroppedWhileRunning ==
  [][(~InFlight("timer") /\ InFlight("timer")')
       => \A c \in Procs : ~InFlight(c)]_vars

\* the ledger a cleanup step of c finds: main.py records and cleans up in
\* one uninterrupted run
BeforeCleanup(c) ==
  IF mode = "app" THEN ledger
  ELSE RecordAll(ledger, cyc[c].new_products, now)

\* c runs cleanup_old in this step
Cleans(c) ==
  \/ mode = "app" /\ cyc[c].pc = "cleanup" /\ cyc'[c].pc # "cleanup"
  \/ mode = "main" /\ cyc[c].pc = "send" /\ Returns(c) /\ ledger' # ledger

\* C9: cleanup_old(hours=24) deletes every record more than 24 hours old and
\* retains every record less than 24 hours old.
CleanupExact ==
  [][\A c \in Procs :
       Cleans(c) =>
         \A r \in DOMAIN BeforeCleanup(c) :
           /\ Age(r) > RetentionHours => r \notin DOMAIN ledger'
           /\ Age(r) < RetentionHours
                => (r \in DOMAIN ledger' /\ ledger'[r] = BeforeCleanup(c)[r])]_vars

\* every record of key k is older than the retention window, and there is one
OnlyExpired(k) ==
  /\ k \in LedgerKeys(ledger)
  /\ \A r \in DOMAIN ledger :
       <<r.product_url, r.price>> = k => Age(r) > RetentionHours

\* C10: a cycle in which a product qualifies keeps it for notification when
\* the product's only AlertRecords are older than the retention window.
ExpiredRecordNotifiedAgain ==
  [][\A c \in Procs :
       (mode = "app" /\ cyc[c].pc = "filter"
          /\ (cyc'[c].pc # "filter" \/ cyc'[c].i # cyc[c].i)
          /\ OnlyExpired(Key(cyc[c].products[cyc[c].i])))
       => (/\ cyc'[c].new_products # <<>>
           /\ cyc'[c].new_products[Len(cyc'[c].new_products)]
                = cyc[c].products[cyc[c].i])]_vars

\* a rule is satisfied by the arguments of a call of _match_rules
Satisfies(rule, call) ==
  /\ call.discount_pct >= rule.min_discount_percent
  /\ \/ /\ rule.rule_type = "brand"
        /\ IsSubstring(LowerText(rule.value), LowerText(call.manufacturer))
     \/ /\ rule.rule_type = "keyword"
        /\ IsSubstring(LowerText(rule.value), LowerText(call.full_name))

\* positions of the satisfied rules in the snapshot
Satisfied(rules, call) == {k \in DOMAIN rules : Satisfies(rules[k], call)}

\* C11: _match_rules returns a rule if and only if the discount reaches the
\* rule's threshold (a discount equal to the threshold passes, one of 19.99
\* against 20 does not) and the lower-cased value is a substring of the
\* lower-cased manufacturer (brand) or full name (keyword); every such rule is
\* returned, once, with its threshold
MatchExactlySatisfying ==
  scr.call.called =>
    /\ \A k \in DOMAIN scr.rules :
         Satisfies(scr.rules[k], scr.call)
           <=> \E j \in DOMAIN scr.call.result :
                 scr.call.result[j] =
                   [id |-> scr.rules[k].id,
                    min |-> scr.rules[k].min_discount_percent]
    /\ Len(scr.call.result) = Cardinality(Satisfied(scr.rules, scr.call))

\* C11 witness: a discount of exactly 20 percent met two rules, one of them
\* with the threshold 20, and both were returned
TwoRulesAtThreshold ==
  /\ scr.call.called
  /\ scr.call.discount_pct = 20 * Franc
  /\ Len(scr.call.result) = 2
  /\ scr.call.result[2].min = 20 * Franc

EntryPerRuleSurvives ==
  scr.state = "deduped" /\ scr.rules # <<>>
    => Len(scr.deduped) = Cardinality(Satisfied(scr.rules, scr.call))

\* C13 amended: a candidate that satisfies k rules leaves scrape_best_prices
\* as k matched products, in the order of the rules and each with its rule's
\* id; they share their dedup key, so the intra-scan dedup of scan_job keeps
\* the first of them alone
EntryPerRuleUntilDedup ==
  (scr.path = "toppreise" /\ scr.state # "ready" /\ scr.call.called
     => /\ Len(scr.products) = Cardinality(Satisfied(scr.rules, scr.call))
        /\ \A k \in DOMAIN scr.products :
             /\ scr.products[k].matched_rule_id = scr.call.result[k].id
             /\ k > 1 => scr.products[k].matched_rule_id
                           > scr.products[k - 1].matched_rule_id)
  /\ (scr.state = "deduped" /\ scr.rules # <<>>
        => scr.deduped = <<scr.products[1]>>)

\* C13 witness: two rules matched the card and the dedup has run
TwoEntriesDeduped ==
  /\ scr.state = "deduped"
  /\ Len(scr.products) = 2
  /\ scr.products[1].matched_rule_id # scr.products[2].matched_rule_id

\* C14: an unconfigured transport with at least one product left after both
\* dedup layers: the cycle never sends, does not fail, and ends by running
\* the retention cleanup
UnconfiguredStillCleans ==
  [][\A c \in Procs :
       (mode = "app" /\ ~cyc[c].cfg /\ cyc[c].new_products # <<>>)
         => /\ cyc[c].sent = <<>>
            /\ cyc[c].pc # "send"
            /\ Returns(c) =>
                 /\ cyc[c].pc = "cleanup"
                 /\ cyc'[c].dberr = ""
                 /\ ledger' = CleanupOld(ledger, RetentionHours, now)]_vars

\* C14 witness: an unconfigured cycle with a new product has reached cleanup
UnconfiguredAtCleanup ==
  \E c \in Procs :
    /\ mode = "app"
    /\ cyc[c].pc = "cleanup"
    /\ ~cyc[c].cfg
    /\ cyc[c].new_products # <<>>
    /\ cyc[c].sent = <<>>

\* C15: an unconfigured cycle ends at Notify and never reaches RecordAlerts:
\* no record is appended for products that were never handed to delivery
UnconfiguredNeverRecords ==
  \A c \in Procs :
    (InFlight(c) /\ ~cyc[c].cfg) => cyc[c].pc \notin {"record", "cleanup"}

\* C19: a fetch that fails ends the cycle there: nothing is sent, no record
\* is appended or deleted, the registration stays, and the trigger source is
\* left as if the cycle had not run, so the next tick fetches again
FetchErrorAbortsCycleOnly ==
  [][\A c \in Procs :
       (cyc[c].pc = "scrape" /\ Returns(c))
         => /\ cyc[c].sent = <<>>
            /\ cyc'[c] = Returned(c)
            /\ UNCHANGED <<ledger, job, rulesOn, configured>>]_vars

\* C19 witness: a cycle is at its fetch while the ledger holds a record and
\* the clock has passed the retention window of that record
FetchOverOldLedger ==
  \E c \in Procs :
    /\ cyc[c].pc = "scrape"
    /\ \E r \in DOMAIN ledger : Age(r) > RetentionHours

\* C17: a cleanup that raises is logged and goes no further: no cycle is ever
\* ended by an exception of cleanup_old
CleanupNeverFatal ==
  \A c \in Procs : cyc[c].dberr # "cleanup"

\* C18: a ledger lookup or insert that fails ends the cycle with the error (it
\* is never skipped with the cycle going on), and after a failed lookup the
\* cycle has sent no message
LedgerFailureAborts ==
  \A c \in Procs :
    /\ cyc[c].dberr \in {"read", "write"} => cyc[c].pc = "raised"
    /\ cyc[c].dberr = "read" => cyc[c].sent = <<>>

\* C18 witness: record_alert failed after a message had gone out, and the
\* cycle ended with the error
RaisedAfterSend ==
  \E c \in Procs :
    /\ cyc[c].pc = "raised"
    /\ cyc[c].dberr = "write"
    /\ cyc[c].sent # <<>>

\* C20: however a cycle ends, the registration of the scan job is what it was
\* before, so the next tick starts a new cycle
SchedulerSurvivesCycle ==
  [][(\E c \in Procs : Returns(c)) => job' = job]_vars

\* C16: under every interleaving of monitor_start, monitor_stop and settings
\* requests at most one registration of the scan job exists, no request
\* fails because the registration was removed in between, and once the
\* requests are answered a registration that exists has the interval of the
\* settings table
RegistrationReplacedSafely ==
  /\ Cardinality(sched.jobs) <= 1
  /\ ~sched.failed
  /\ ((\A t \in Threads : sched.req[t].pc = "idle") /\ sched.jobs # {})
       => sched.jobs = {sched.setting}

\* the text with its blanks and one CHF token, in front or behind, taken off
Bare(text) ==
  LET t == Remove(text, " ")
  IN  IF Len(t) >= 3 /\ SubSeq(t, 1, 3) = <<"C", "H", "F">>
      THEN SubSeq(t, 4, Len(t))
      ELSE IF Len(t) >= 3 /\ SubSeq(t, Len(t) - 2, Len(t)) = <<"C", "H", "F">>
      THEN SubSeq(t, 1, Len(t) - 3)
      ELSE t

\* the supported formats, read generously: digits with comma or apostrophe
\* separators, an optional decimal part, an optional trailing ".-", around
\* them an optional CHF token and blanks
Supported(text) ==
  LET t  == DropDotDash(Bare(text))
      d  == Pos(t, ".")
      ip == IF d = 0 THEN t ELSE SubSeq(t, 1, d - 1)
      fp == IF d = 0 THEN <<>> ELSE SubSeq(t, d + 1, Len(t))
  IN  /\ \A k \in DOMAIN ip : ip[k] \in Digits \cup {",", "'"}
      /\ IsDigits(fp)
      /\ \E k \in DOMAIN t : t[k] \in Digits

\* the number a supported text denotes
Denoted(text) ==
  LET t  == DropDotDash(Bare(text))
      d  == Pos(t, ".")
      ip == IF d = 0 THEN t ELSE SubSeq(t, 1, d - 1)
      fp == IF d = 0 THEN <<>> ELSE SubSeq(t, d + 1, Len(t))
  IN  Num(FALSE, DigitsVal(Remove(Remove(ip, ","), "'") \o fp), 0 - Len(fp))

\* C23: _parse_price returns the exact number for every text in a supported
\* format and None for every other text
ParsePriceTotalExact ==
  price.state = "parsed"
    => price.value = IF Supported(price.text) THEN Denoted(price.text)
                     ELSE NoneResult

\* C22: when the combined text exceeds 4096 characters and one message per
\* product goes out, every such message is itself at most 4096 characters
PerProductUnderCeiling ==
  FormatLen(batchIn) > TelegramLimit
    => \A k \in DOMAIN batchOut.sent :
         FormatLen(batchOut.sent[k]) <= TelegramLimit

\* both prices of a card parsed
Parseable(card) == card.old # NoneVal /\ card.new # NoneVal

\* C24: the products a fetch returns for a list of cards are the products it
\* returns for the same list without the cards whose price does not parse,
\* and the fetch comes to its return with every card looked at
UnparseableDropsOnlyItself ==
  page.state = "returned"
    => /\ page.products = CardLoop(SelectSeq(page.cards, Parseable), page.rules)
       /\ page.i = Len(page.cards) + 1

\* C24 witness: a fetch returned products for a list in which a card with an
\* unparseable price stands before a card that matched
ReturnedPastUnparseable ==
  /\ page.state = "returned"
  /\ Len(page.cards) = 2
  /\ ~Parseable(page.cards[1])
  /\ page.products # <<>>

\* C25: with a rule list every matched product carries the id of a rule of
\* the list that the candidate satisfies; without one (legacy single-filter
\* mode) a candidate yields at most one product, and only there is the rule
\* id None
RuleIdCarried ==
  scr.state # "ready" =>
    \A k \in DOMAIN scr.products :
      IF scr.rules # <<>>
      THEN \E j \in DOMAIN scr.rules :
             /\ scr.rules[j].id = scr.products[k].matched_rule_id
             /\ scr.products[k].matched_rule_id # NoRule
             /\ Satisfies(scr.rules[j], scr.call)
      ELSE /\ scr.products[k].matched_rule_id = NoRule
           /\ Len(scr.products) = 1

\* C25 witness: the second rule of a list alone matched a card, and the
\* product carries its id
SecondRuleAloneMatched ==
  /\ scr.state = "matched"
  /\ scr.path = "toppreise"
  /\ Len(scr.rules) = 2
  /\ Len(scr.products) = 1
  /\ scr.products[1].matched_rule_id = scr.rules[2].id

\* C26: every external call of a fetch is bounded, so no fetch is ever left
\* waiting on a call that does not return, and a call that fails or times
\* out ends the fetch as a non-fatal error
ExternalCallsBounded ==
  scr.state \notin {"blocked", "raised"}

\* the step is a step of cycle c
Moves(c) ==
  \/ cyc'[c].pc # cyc[c].pc
  \/ cyc'[c].i # cyc[c].i
  \/ cyc'[c].sent # cyc[c].sent
  \/ cyc'[c].products # cyc[c].products

\* the step adds a record to the ledger, or takes one away
Grows ==
  \E r \in DOMAIN ledger' : r \notin DOMAIN ledger \/ ledger'[r] > ledger[r]

Shrinks ==
  \E r \in DOMAIN ledger : r \notin DOMAIN ledger' \/ ledger'[r] < ledger[r]

\* the place of a step in the order of the cycle
Rank(pc) ==
  CASE pc = "scrape"  -> 1
    [] pc = "dedup"   -> 2
    [] pc = "filter"  -> 3
    [] pc = "send"    -> 4
    [] pc = "record"  -> 5
    [] pc = "cleanup" -> 6
    [] OTHER          -> 0

\* the notification attempt of the cycle is over: every message is out, or
\* the last send failed, or the transport is not configured
AttemptOver(l) ==
  \/ ~l.cfg
  \/ /\ l.sent # <<>>
     /\ Len(l.sent) = Len(l.msgs) \/ ~l.sent[Len(l.sent)]

\* C27: a cycle moves through fetch, dedup, ledger check, notify, record and
\* cleanup in that order: it writes a record only once its notification
\* attempt is over and never checks the ledger after that, and from its last
\* record it goes to the cleanup, which runs once and ends the cycle
FixedStepOrder ==
  [][\A c \in Procs :
       Moves(c) =>
         /\ (InFlight(c) /\ InFlight(c)') =>
              Rank(cyc'[c].pc) >= Rank(cyc[c].pc)
         /\ Grows =>
              \/ mode = "app" /\ cyc[c].pc = "record" /\ AttemptOver(cyc[c])
              \/ /\ mode = "main" /\ cyc[c].pc = "send" /\ Returns(c)
                 /\ Len(cyc[c].sent) + 1 = Len(cyc[c].msgs)
         /\ Shrinks =>
              /\ Returns(c)
              /\ cyc[c].pc = IF mode = "app" THEN "cleanup" ELSE "send"
         /\ (cyc[c].pc = "record" /\ cyc'[c].pc # "record") =>
              cyc'[c].pc = "cleanup"
         /\ cyc[c].pc = "cleanup" =>
              /\ Returns(c)
              /\ ledger' = CleanupOld(ledger, RetentionHours, now)]_vars

\* C27 witness: a cycle has sent two messages, written its records and
\* stands at the cleanup
TwoSentAtCleanup ==
  \E c \in Procs :
    /\ cyc[c].pc = "cleanup"
    /\ cyc[c].cfg
    /\ Len(cyc[c].sent) = 2
    /\ \E r \in DOMAIN ledger : r.alerted_at = now

\* C28: a scan_job that ends early (no enabled rule, failed fetch, nothing
\* qualified, everything already alerted) has sent nothing and changed no
\* record, at its end and at every step before it; with no enabled rule it
\* ends at once, without a fetch
EarlyEndFrame ==
  [][mode = "app" =>
       /\ (started' # started /\ ~rulesOn) =>
            /\ ledger' = ledger
            /\ \A c \in Procs : cyc'[c].pc # "scrape"
       /\ \A c \in Procs :
            (Moves(c) /\ cyc[c].pc \in {"scrape", "dedup", "filter"}) =>
              /\ ledger' = ledger
              /\ cyc[c].sent = <<>> /\ cyc'[c].sent = <<>>
              /\ ~InFlight(c)' => cyc'[c] = Returned(c)]_vars

\* C28 witness: a cycle is at the last turn of its ledger check with nothing
\* new so far and a product the ledger already holds
AllAlreadyAlerted ==
  \E c \in Procs :
    /\ mode = "app"
    /\ cyc[c].pc = "filter"
    /\ cyc[c].i = Len(cyc[c].products)
    /\ cyc[c].new_products = <<>>
    /\ AlreadyAlerted(ledger, KeyUrl(cyc[c].products[cyc[c].i]),
                      cyc[c].products[cyc[c].i].new_price)

\* C21: a shutdown signal lets a cycle in flight run to its terminal state:
\* no cycle is ended between its start and its end, so none is ended with
\* only some of its records written
ShutdownLetsCycleFinish ==
  \A c \in Procs : cyc[c].pc = "killed" => cyc[c] = Killed(Idle)

====
